---- MODULE Spec2Model ----
(***************************************************************************)
(* Model of src/docker/handler.py: the RunPod serverless handler of the    *)
(* OpenFan Z-Image Turbo worker.                                           *)
(*                                                                         *)
(* The process state is the module global MODEL.  Every activation of      *)
(* handler(event) is a frame with its own locals and its own position in   *)
(* the function body.  Spec runs one frame, invoked again and again (the   *)
(* runtime hands the process one event at a time); ConcSpec runs two       *)
(* frames whose steps interleave (two events dispatched to the same        *)
(* process at once).                                                       *)
(*                                                                         *)
(* Python values are tagged tuples so that None, integers and strings can  *)
(* live in the same dict; a string is the sequence of its characters.      *)
(***************************************************************************)
EXTENDS Integers, Sequences, FiniteSets, TLC

VARIABLES
    MODEL,      \* the module global MODEL: None or "loaded"
    pc,         \* per frame: idle, check, test, load, loop, done
    req,        \* per frame: the event handler was called with
    loc,        \* per frame: handler's local variables
    resp,       \* per frame: the value handler returned (NoResp before)
    exc,        \* per frame: the exception that left handler ("" if none)
    inv,        \* per frame: ordinal of the invocation it is running
    ninv,       \* number of invocations started so far
    calls,      \* per frame: arguments of every generate_image call made,
                \* each with the value MODEL had when the call was made
    draws,      \* per frame: colour numbers drawn by random.randint
    sawNone,    \* per frame: line 96 read MODEL as None in this invocation
    entry,      \* per frame: the value of MODEL when handler was entered
    loadedBy,   \* ordinals of the invocations that ran load_model, in order
    truthy,     \* ordinals of the invocations whose prompt was non-empty
    passed      \* ordinals of the invocations that got past line 90

vars == <<MODEL, pc, req, loc, resp, exc, inv, ninv, calls, draws, sawNone,
          entry, loadedBy, truthy, passed>>

-----------------------------------------------------------------------------
(* Bounds *)

MaxInvocations == 2
MaxColor == 1

Frames == {1, 2}
SeqFrames == {1}

-----------------------------------------------------------------------------
(* Python values *)

None == <<"None">>
PyInt(n) == <<"int", n>>
PyStr(s) == <<"str", s>>
Absent == <<"absent">>

\* The value load_model gives MODEL (line 45)
Loaded == PyStr(<<"l", "o", "a", "d", "e", "d">>)

IsInt(v) == v # None /\ v[1] = "int"
Val(v) == v[2]

\* Python truth value of None, an int, a str
Truthy(v) ==
    IF v = None THEN FALSE
    ELSE IF v[1] = "int" THEN v[2] # 0
    ELSE Len(v[2]) > 0

EmptyDict == [k \in {} |-> None]

\* dict.get(key, default)
Get(d, k, default) == IF k \in DOMAIN d THEN d[k] ELSE default

Keys == {"prompt", "negative_prompt", "char_block", "width", "height",
         "seed", "num_images"}

-----------------------------------------------------------------------------
(* Events the runtime can deliver *)

Opts ==
    [prompt : {Absent, PyStr(<<>>), PyStr(<<"B">>)},
     negative_prompt : {Absent, PyStr(<<"N">>)},
     char_block : {Absent, PyStr(<<>>), PyStr(<<"A">>)},
     width : {Absent, PyInt(64), PyInt(0)},
     height : {Absent, PyInt(32)},
     seed : {Absent, None, PyInt(0), PyInt(7)},
     num_images : {Absent, None, PyInt(-1), PyInt(0), PyInt(3), PyInt(5)}]

MkDict(o) == [k \in {k \in Keys : o[k] # Absent} |-> o[k]]

NoInputEvent == EmptyDict

Events == {[input |-> MkDict(o)] : o \in Opts} \cup {NoInputEvent}

ConcEvents ==
    {NoInputEvent,
     [input |-> [prompt |-> PyStr(<<"B">>)]],
     [input |-> [prompt |-> PyStr(<<"B">>), num_images |-> PyInt(5)]],
     [input |-> [prompt |-> PyStr(<<"B">>), num_images |-> PyInt(0)]],
     [input |-> [prompt |-> PyStr(<<"B">>), char_block |-> PyStr(<<"A">>),
                 seed |-> PyInt(7), num_images |-> PyInt(2), width |-> PyInt(0)]],
     [input |-> [prompt |-> PyStr(<<"B">>), num_images |-> None]]}

-----------------------------------------------------------------------------
(* Pure pieces of handler.py *)

\* Variant of Clamp: the upper limit is forgotten.
ClampNoUpper(n) == n

\* Variant of Clamp: the count is also raised to at least 1.
ClampFloorOne(n) == IF n < 1 THEN 1 ELSE IF 4 < n THEN 4 ELSE n

\* min(x, 4) on an integer x (line 87)
Clamp(n) == IF 4 < n THEN 4 ELSE n

\* Variant of FullPrompt: the separator is written even without char_block.
FullPromptAlways(char_block, prompt) ==
    PyStr(Val(char_block) \o <<",", " ">> \o Val(prompt))

\* f"{char_block}, {prompt}" if char_block else prompt (line 93)
FullPrompt(char_block, prompt) ==
    IF Truthy(char_block)
    THEN PyStr(Val(char_block) \o <<",", " ">> \o Val(prompt))
    ELSE prompt

\* Variant of NeedsLoad: the model is loaded on every request.
NeedsLoadAlways(m) == TRUE

\* Variant of NeedsLoad: the model is never loaded.
NeedsLoadNever(m) == FALSE

\* MODEL is None (line 96)
NeedsLoad(m) == m = None

\* Variant of ImgSeed: "if seed" in place of "if seed is not None".
ImgSeedTruthy(seed, i) == IF Truthy(seed) THEN PyInt(Val(seed) + i) ELSE None

\* (seed + i) if seed is not None else None (line 102)
ImgSeed(seed, i) == IF seed # None THEN PyInt(Val(seed) + i) ELSE None

\* The colour (randint(0,255), randint(0,255), randint(0,255)) of line 66,
\* numbered in the order (r, g, b).
Color(n) == <<n \div 65536, (n \div 256) % 256, n % 256>>

\* Image.new("RGB", (width, height), color=...) (line 66)
NewImage(width, height, color) ==
    [mode |-> "RGB", size |-> <<width, height>>, color |-> color]

\* Variant of GenerateImage: the same colour whatever was drawn.
GenerateImageFixed(prompt, negative_prompt, width, height, seed, c) ==
    NewImage(width, height, Color(0))

\* generate_image (lines 48-67) once the colour c has been drawn: the
\* placeholder ignores the prompts and the seed.
GenerateImage(prompt, negative_prompt, width, height, seed, c) ==
    NewImage(width, height, Color(c))

\* Image.new rejects a negative size with ValueError (line 66).
NewImageOk(width, height) == width >= 0 /\ height >= 0

\* The JPEG encoder rejects an empty image (img.save, line 73).
SaveOk(img) == img.size[1] >= 1 /\ img.size[2] >= 1

\* img.save(buffer, format="JPEG", quality=95) then base64 (lines 72-74).
\* The encoding is a function of the image alone; it is kept symbolic.
ImageToBase64(img) ==
    <<"base64", [format |-> "JPEG", quality |-> 95, image |-> img]>>

-----------------------------------------------------------------------------
(* Responses *)

NoResp == EmptyDict
ErrorResp == [error |-> "prompt is required"]
ImagesResp(images) == [images |-> images]

NoLocals == EmptyDict

-----------------------------------------------------------------------------
(* Initial state: the process has started, MODEL = None (line 31) *)

Init ==
    /\ MODEL = None
    /\ pc = [t \in Frames |-> "idle"]
    /\ req = [t \in Frames |-> EmptyDict]
    /\ loc = [t \in Frames |-> NoLocals]
    /\ resp = [t \in Frames |-> NoResp]
    /\ exc = [t \in Frames |-> ""]
    /\ inv = [t \in Frames |-> 0]
    /\ ninv = 0
    /\ calls = [t \in Frames |-> <<>>]
    /\ draws = [t \in Frames |-> <<>>]
    /\ sawNone = [t \in Frames |-> FALSE]
    /\ entry = [t \in Frames |-> None]
    /\ loadedBy = <<>>
    /\ truthy = {}
    /\ passed = {}

-----------------------------------------------------------------------------
(* handler(event), lines 77-106 *)

\* Lines 79-87: the runtime calls handler(event); the fields are read.
\* min(num_images, 4) raises TypeError when num_images is not a number.
Invoke(t, event) ==
    /\ pc[t] = "idle"
    /\ ninv < MaxInvocations
    /\ LET input_data == Get(event, "input", EmptyDict)
           prompt == Get(input_data, "prompt", PyStr(<<>>))
           negative_prompt == Get(input_data, "negative_prompt", PyStr(<<>>))
           char_block == Get(input_data, "char_block", PyStr(<<>>))
           width == Get(input_data, "width", PyInt(1024))
           height == Get(input_data, "height", PyInt(1024))
           seed == Get(input_data, "seed", None)
           num_raw == Get(input_data, "num_images", PyInt(1))
       IN  /\ truthy' = IF Truthy(prompt) THEN truthy \cup {ninv + 1} ELSE truthy
           /\ IF IsInt(num_raw)
              THEN /\ loc' = [loc EXCEPT ![t] =
                         [prompt |-> prompt,
                          negative_prompt |-> negative_prompt,
                          char_block |-> char_block,
                          width |-> width,
                          height |-> height,
                          seed |-> seed,
                          num_images |-> Clamp(Val(num_raw)),
                          full_prompt |-> None,
                          i |-> 0,
                          images |-> <<>>]]
                   /\ pc' = [pc EXCEPT ![t] = "check"]
                   /\ exc' = [exc EXCEPT ![t] = ""]
              ELSE /\ loc' = [loc EXCEPT ![t] = NoLocals]
                   /\ pc' = [pc EXCEPT ![t] = "done"]
                   /\ exc' = [exc EXCEPT ![t] = "TypeError"]
    /\ req' = [req EXCEPT ![t] = event]
    /\ resp' = [resp EXCEPT ![t] = NoResp]
    /\ inv' = [inv EXCEPT ![t] = ninv + 1]
    /\ ninv' = ninv + 1
    /\ calls' = [calls EXCEPT ![t] = <<>>]
    /\ draws' = [draws EXCEPT ![t] = <<>>]
    /\ sawNone' = [sawNone EXCEPT ![t] = FALSE]
    /\ entry' = [entry EXCEPT ![t] = MODEL]
    /\ UNCHANGED <<MODEL, loadedBy, passed>>

\* Variant of CheckPrompt: the model is loaded before the prompt is checked.
CheckPromptAfterLoad(t) ==
    /\ pc[t] = "check"
    /\ MODEL' = Loaded
    /\ loadedBy' = IF MODEL = None THEN Append(loadedBy, inv[t]) ELSE loadedBy
    /\ IF ~Truthy(loc[t].prompt)
       THEN /\ resp' = [resp EXCEPT ![t] = ErrorResp]
            /\ pc' = [pc EXCEPT ![t] = "done"]
            /\ UNCHANGED <<loc, passed>>
       ELSE /\ loc' = [loc EXCEPT ![t].full_prompt =
                          FullPrompt(loc[t].char_block, loc[t].prompt)]
            /\ pc' = [pc EXCEPT ![t] = "test"]
            /\ passed' = passed \cup {inv[t]}
            /\ UNCHANGED resp
    /\ UNCHANGED <<req, exc, inv, ninv, calls, draws, sawNone, entry, truthy>>

\* Lines 89-93: the prompt check and the full prompt.
CheckPrompt(t) ==
    /\ pc[t] = "check"
    /\ IF ~Truthy(loc[t].prompt)
       THEN /\ resp' = [resp EXCEPT ![t] = ErrorResp]
            /\ pc' = [pc EXCEPT ![t] = "done"]
            /\ UNCHANGED <<loc, passed>>
       ELSE /\ loc' = [loc EXCEPT ![t].full_prompt =
                          FullPrompt(loc[t].char_block, loc[t].prompt)]
            /\ pc' = [pc EXCEPT ![t] = "test"]
            /\ passed' = passed \cup {inv[t]}
            /\ UNCHANGED resp
    /\ UNCHANGED <<MODEL, req, exc, inv, ninv, calls, draws, sawNone, entry,
                   loadedBy, truthy>>

\* Line 96: if MODEL is None
TestModel(t) ==
    /\ pc[t] = "test"
    /\ IF NeedsLoad(MODEL)
       THEN /\ pc' = [pc EXCEPT ![t] = "load"]
            /\ sawNone' = [sawNone EXCEPT ![t] = (MODEL = None)]
       ELSE /\ pc' = [pc EXCEPT ![t] = "loop"]
            /\ UNCHANGED sawNone
    /\ UNCHANGED <<MODEL, req, loc, resp, exc, inv, ninv, calls, draws, entry,
                   loadedBy, truthy, passed>>

\* Variant of LoadModel: the test of line 96 is repeated inside the load,
\* atomically with the assignment.
LoadModelIfUnset(t) ==
    /\ pc[t] = "load"
    /\ MODEL' = Loaded
    /\ loadedBy' = IF MODEL = None THEN Append(loadedBy, inv[t]) ELSE loadedBy
    /\ pc' = [pc EXCEPT ![t] = "loop"]
    /\ UNCHANGED <<req, loc, resp, exc, inv, ninv, calls, draws, sawNone,
                   entry, truthy, passed>>

\* Lines 97, 34-45: load_model()
LoadModel(t) ==
    /\ pc[t] = "load"
    /\ MODEL' = Loaded
    /\ loadedBy' = Append(loadedBy, inv[t])
    /\ pc' = [pc EXCEPT ![t] = "loop"]
    /\ UNCHANGED <<req, loc, resp, exc, inv, ninv, calls, draws, sawNone,
                   entry, truthy, passed>>

\* Lines 101-104, 48-74: one iteration of the loop.  generate_image is
\* called with the derived seed; when the seed is None it draws one that
\* it never uses (line 51), then it draws the colour (line 66).
Generate(t) ==
    /\ pc[t] = "loop"
    /\ loc[t].i < loc[t].num_images
    /\ LET l == loc[t]
           img_seed == ImgSeed(l.seed, l.i)
           w == Val(l.width)
           h == Val(l.height)
       IN  /\ calls' = [calls EXCEPT ![t] = Append(@,
                          [prompt |-> l.full_prompt,
                           negative_prompt |-> l.negative_prompt,
                           width |-> l.width,
                           height |-> l.height,
                           seed |-> img_seed,
                           model |-> MODEL])]
           /\ \E c \in 0..MaxColor :
                /\ draws' = [draws EXCEPT ![t] = Append(@, c)]
                /\ IF /\ NewImageOk(w, h)
                      /\ SaveOk(GenerateImage(l.full_prompt, l.negative_prompt,
                                              w, h, img_seed, c))
                   THEN /\ loc' = [loc EXCEPT
                              ![t].images = Append(@,
                                  ImageToBase64(
                                      GenerateImage(l.full_prompt,
                                                    l.negative_prompt,
                                                    w, h, img_seed, c))),
                              ![t].i = @ + 1]
                        /\ UNCHANGED <<pc, exc>>
                   ELSE /\ pc' = [pc EXCEPT ![t] = "done"]
                        /\ exc' = [exc EXCEPT ![t] = "ValueError"]
                        /\ UNCHANGED loc
    /\ UNCHANGED <<MODEL, req, resp, inv, ninv, sawNone, entry, loadedBy,
                   truthy, passed>>

\* Line 106: range(num_images) is exhausted, return {"images": images}
Return(t) ==
    /\ pc[t] = "loop"
    /\ ~(loc[t].i < loc[t].num_images)
    /\ resp' = [resp EXCEPT ![t] = ImagesResp(loc[t].images)]
    /\ pc' = [pc EXCEPT ![t] = "done"]
    /\ UNCHANGED <<MODEL, req, loc, exc, inv, ninv, calls, draws, sawNone,
                   entry, loadedBy, truthy, passed>>

\* The runtime has taken the result of handler (the response or the
\* exception); the frame is gone and the worker is free for the next event.
Deliver(t) ==
    /\ pc[t] = "done"
    /\ pc' = [pc EXCEPT ![t] = "idle"]
    /\ req' = [req EXCEPT ![t] = EmptyDict]
    /\ loc' = [loc EXCEPT ![t] = NoLocals]
    /\ resp' = [resp EXCEPT ![t] = NoResp]
    /\ exc' = [exc EXCEPT ![t] = ""]
    /\ inv' = [inv EXCEPT ![t] = 0]
    /\ calls' = [calls EXCEPT ![t] = <<>>]
    /\ draws' = [draws EXCEPT ![t] = <<>>]
    /\ sawNone' = [sawNone EXCEPT ![t] = FALSE]
    /\ entry' = [entry EXCEPT ![t] = None]
    /\ UNCHANGED <<MODEL, ninv, loadedBy, truthy, passed>>

-----------------------------------------------------------------------------
(* Specifications *)

\* One invocation at a time, any event.
Next ==
    \E t \in SeqFrames :
        \/ \E event \in Events : Invoke(t, event)
        \/ CheckPrompt(t)
        \/ TestModel(t)
        \/ LoadModel(t)
        \/ Generate(t)
        \/ Return(t)
        \/ Deliver(t)

Spec == Init /\ [][Next]_vars

\* Two frames whose steps interleave.
ConcNext ==
    \E t \in Frames :
        \/ \E event \in ConcEvents : Invoke(t, event)
        \/ CheckPrompt(t)
        \/ TestModel(t)
        \/ LoadModel(t)
        \/ Generate(t)
        \/ Return(t)
        \/ Deliver(t)

ConcSpec == Init /\ [][ConcNext]_vars

-----------------------------------------------------------------------------
(* What the properties read off a frame *)

Range(s) == {s[k] : k \in 1..Len(s)}

SetMin(S) == CHOOSE x \in S : \A y \in S : x <= y

\* The field of the request as the caller sent it, or the documented default.
Field(t, k, default) == Get(Get(req[t], "input", EmptyDict), k, default)

ReqPrompt(t) == Field(t, "prompt", PyStr(<<>>))
ReqNum(t) == Field(t, "num_images", PyInt(1))
ReqSeed(t) == Field(t, "seed", None)

\* handler has finished: it returned a value or an exception left it.
Finished(t) == pc[t] = "done"
Returned(t) == pc[t] = "done" /\ exc[t] = ""

NonEmptyPrompt(t) == ReqPrompt(t) # None /\ Len(Val(ReqPrompt(t))) > 0

-----------------------------------------------------------------------------
(* C1 *)

\* C1: every finished invocation whose prompt is empty or absent, whatever
\* the other fields hold, has returned {"error": "prompt is required"}:
\* no exception left handler and the response has no images key.
C1_MissingPromptIsAValueError ==
    \A t \in SeqFrames :
        (Finished(t) /\ ~NonEmptyPrompt(t)) =>
            /\ exc[t] = ""
            /\ resp[t] = [error |-> "prompt is required"]
            /\ "images" \notin DOMAIN resp[t]

-----------------------------------------------------------------------------
(* C2 *)

-----------------------------------------------------------------------------
(* C3 *)

\* C3 as stated: with invocations processed one at a time, load_model runs
\* at most once, the handle is loaded exactly when it has run, and it runs
\* during the first invocation with a non-empty prompt: once that invocation
\* has finished the handle is loaded, and loaded by it.
C3_LoadedByFirstNonEmptyPrompt ==
    /\ Len(loadedBy) <= 1
    /\ (MODEL = None) <=> (loadedBy = <<>>)
    /\ loadedBy # <<>> => (truthy # {} /\ loadedBy[1] = SetMin(truthy))
    /\ \A t \in SeqFrames :
          (truthy # {} /\ (Finished(t) \/ pc[t] = "idle")) =>
              loadedBy # <<>>

\* C3 as amended: with invocations processed one at a time, the handle starts
\* unset, load_model runs at most once, the handle is loaded exactly when it
\* has run and is never unset or loaded again, and it runs during the first
\* invocation that gets past the prompt check (a non-empty prompt and a
\* num_images that min() accepts): once that invocation is past line 97 the
\* handle is loaded, and loaded by it.
C3_LoadedByFirstPassing ==
    /\ Len(loadedBy) <= 1
    /\ (MODEL = None) <=> (loadedBy = <<>>)
    /\ MODEL # None => MODEL = Loaded
    /\ loadedBy # <<>> => (passed # {} /\ loadedBy[1] = SetMin(passed))
    /\ \A t \in SeqFrames :
          (passed # {} /\ pc[t] \notin {"test", "load"}) => loadedBy # <<>>

\* C3 witness: the second invocation to get past the prompt check has
\* returned its images, and the only load was the first invocation's.
C3_Witness ==
    \E t \in SeqFrames :
        /\ Returned(t)
        /\ inv[t] = 2
        /\ passed = {1, 2}
        /\ "images" \in DOMAIN resp[t]
        /\ loadedBy = <<1>>
        /\ MODEL = Loaded

-----------------------------------------------------------------------------
(* C4 *)

\* C4: an invocation that takes the error path leaves the model handle as it
\* found it (unset stays unset), has not run load_model and has made no
\* generate_image call.
C4_ErrorPathTouchesNothing ==
    \A t \in SeqFrames :
        (Finished(t) /\ ~NonEmptyPrompt(t)) =>
            /\ MODEL = entry[t]
            /\ inv[t] \notin Range(loadedBy)
            /\ calls[t] = <<>>
            /\ draws[t] = <<>>

\* C4 witness: the error response has been returned while the handle is
\* still unset.
C4_Witness ==
    \E t \in SeqFrames :
        /\ Returned(t)
        /\ resp[t] = [error |-> "prompt is required"]
        /\ entry[t] = None
        /\ MODEL = None

-----------------------------------------------------------------------------
(* C5 *)

\* C5: the k-th generate_image call of an invocation (k counted from 0)
\* receives seed + k when the request supplies a seed, 0 included, and None
\* when it supplies none; a returned invocation has made one call per image.
C5_SeedOffsets ==
    \A t \in Frames :
        /\ \A k \in 1..Len(calls[t]) :
              calls[t][k].seed =
                  (IF ReqSeed(t) = None THEN None
                   ELSE PyInt(Val(ReqSeed(t)) + (k - 1)))
        /\ (Returned(t) /\ "images" \in DOMAIN resp[t]) =>
              Len(calls[t]) = Len(resp[t].images)

\* C5 witness: a request with seed 0 and three images has returned, its
\* calls having received the seeds 0, 1, 2.
C5_Witness ==
    \E t \in SeqFrames :
        /\ Returned(t)
        /\ ReqSeed(t) = PyInt(0)
        /\ ReqNum(t) = PyInt(3)
        /\ [k \in 1..Len(calls[t]) |-> calls[t][k].seed] =
               <<PyInt(0), PyInt(1), PyInt(2)>>

-----------------------------------------------------------------------------
(* C7 *)

\* C7: every generate_image call receives "<char_block>, <prompt>" when
\* char_block is non-empty and the prompt itself when char_block is empty or
\* absent, and the negative prompt as it was sent ("" when absent).
C7_FullPrompt ==
    \A t \in Frames :
        \A k \in 1..Len(calls[t]) :
            LET cb == Field(t, "char_block", PyStr(<<>>))
                p == ReqPrompt(t)
            IN  /\ calls[t][k].prompt =
                       (IF Len(Val(cb)) = 0 THEN p
                        ELSE PyStr(Val(cb) \o <<",", " ">> \o Val(p)))
                /\ calls[t][k].negative_prompt =
                       Field(t, "negative_prompt", PyStr(<<>>))

\* C7 witness: char_block "A" and prompt "B" have reached generate_image
\* as "A, B", with the negative prompt "N".
C7_Witness ==
    \E t \in SeqFrames :
        /\ Returned(t)
        /\ Field(t, "char_block", PyStr(<<>>)) = PyStr(<<"A">>)
        /\ ReqPrompt(t) = PyStr(<<"B">>)
        /\ Len(calls[t]) > 0
        /\ calls[t][1].prompt = PyStr(<<"A", ",", " ", "B">>)
        /\ calls[t][1].negative_prompt = PyStr(<<"N">>)

-----------------------------------------------------------------------------
(* C9 *)

\* C9: a finished invocation with a non-empty prompt and num_images <= 0 has
\* reported no error and raised nothing: the count was kept as sent, no
\* generate_image call was made, the handle is loaded (by this invocation if
\* it found it unset) and the response is {"images": []}.
C9_NoLowerClamp ==
    \A t \in SeqFrames :
        (Finished(t) /\ NonEmptyPrompt(t) /\ IsInt(ReqNum(t))
                     /\ Val(ReqNum(t)) <= 0) =>
            /\ exc[t] = ""
            /\ resp[t] = [images |-> <<>>]
            /\ loc[t].num_images = Val(ReqNum(t))
            /\ calls[t] = <<>>
            /\ MODEL = Loaded
            /\ entry[t] = None => inv[t] \in Range(loadedBy)

\* C9 witness: a request for -1 images found the handle unset, loaded it and
\* returned the empty list.
C9_Witness ==
    \E t \in SeqFrames :
        /\ Returned(t)
        /\ NonEmptyPrompt(t)
        /\ ReqNum(t) = PyInt(-1)
        /\ entry[t] = None
        /\ loadedBy = <<inv[t]>>
        /\ resp[t] = [images |-> <<>>]

-----------------------------------------------------------------------------
(* C6 *)

\* Two frames have returned images for the same request, which has no seed.
SameUnseededRequest ==
    /\ \A t \in Frames : Returned(t) /\ "images" \in DOMAIN resp[t]
    /\ req[1] = req[2]
    /\ ReqSeed(1) = None

\* C6 as stated: two invocations with identical requests and no seed never
\* return the same output (read here in its most favourable sense: at
\* least one image is generated, so that there is a colour to differ).
C6_OutputsAlwaysDiffer ==
    (SameUnseededRequest /\ Len(resp[1].images) > 0) => resp[1] # resp[2]

\* C6 as amended: two invocations with identical requests and no seed return
\* the same number of images, each image having the requested size and the
\* colour drawn for it in its own invocation; nothing else enters the
\* output, so the outputs coincide whenever the colours drawn coincide (and
\* always when no image is generated) and may differ otherwise.
C6_OutputsFollowTheDraws ==
    SameUnseededRequest =>
        /\ Len(resp[1].images) = Len(resp[2].images)
        /\ \A t \in Frames :
              /\ Len(draws[t]) = Len(resp[t].images)
              /\ \A k \in 1..Len(resp[t].images) :
                    resp[t].images[k] =
                        ImageToBase64(
                            NewImage(Val(Field(t, "width", PyInt(1024))),
                                     Val(Field(t, "height", PyInt(1024))),
                                     Color(draws[t][k])))
        /\ draws[1] = draws[2] => resp[1] = resp[2]

\* C6 witness: the same unseeded request was answered twice with different
\* images.
C6_Witness ==
    /\ SameUnseededRequest
    /\ Len(resp[1].images) > 0
    /\ resp[1] # resp[2]

-----------------------------------------------------------------------------
(* C8 *)

\* C8: the lazy initialization is not atomic.  A frame that read MODEL as
\* None at line 96 runs load_model without looking again, so when two
\* frames have both read None and are past line 97, load_model has run
\* twice, once for each.
C8_BothLoad ==
    ((\A t \in Frames : sawNone[t] /\ pc[t] \in {"loop", "done"})) =>
        /\ Len(loadedBy) = 2
        /\ Range(loadedBy) = {inv[t] : t \in Frames}

\* C8 witness: two invocations with non-empty prompts both read the handle
\* as unset before either set it, and load_model has run twice.
C8_Witness ==
    /\ \A t \in Frames : NonEmptyPrompt(t) /\ sawNone[t] /\ entry[t] = None
    /\ \A t \in Frames : Returned(t)
    /\ Len(loadedBy) = 2

-----------------------------------------------------------------------------
(* C10 *)

\* C10: in every interleaving, generate_image is never called while the
\* model handle is unset (a frame inside the loop sees it loaded, and so did
\* every call made), and an invocation makes at most 4 generate_image calls.
C10_LoadBeforeGenerate ==
    \A t \in Frames :
        /\ pc[t] = "loop" => MODEL # None
        /\ \A k \in 1..Len(calls[t]) : calls[t][k].model # None
        /\ Len(calls[t]) <= 4

\* C10 witness: a request for 5 images has returned after 4 calls while the
\* other frame is inside its own loop.
C10_Witness ==
    \E t \in Frames :
        /\ Returned(t)
        /\ ReqNum(t) = PyInt(5)
        /\ Len(calls[t]) = 4
        /\ \E u \in Frames \ {t} : pc[u] = "loop" /\ Len(calls[u]) > 0

====
